---------------------------- MODULE Spec2Model ----------------------------
(***************************************************************************)
(* Model of src/main.cpp: Boid, Flock (update, draw, addBoid, setDest,     *)
(* clear) and the FlockingApp driver loop (run, handleEvents,              *)
(* createRandomFlock).                                                     *)
(*                                                                         *)
(* Floats are fixed-point integers in units of 1/SCALE; the factors of     *)
(* Flock (AVOID_FACTOR, ...) are in units of 1/FSCALE.  NaN is the IEEE    *)
(* not-a-number a 0/0 produces: it propagates through every arithmetic     *)
(* operation and makes every ordered comparison false.                     *)
(***************************************************************************)
EXTENDS Integers, Sequences, FiniteSets, TLC

\* ------------------------------------------------------------- bounds
\* Largest number of boids a Flock holds in the model.
MaxBoids == 2
\* Largest number of Flock::update() calls in one behaviour.
MaxUpdates == 1
\* Largest number of events one handleEvents() call polls.
MaxEvents == 2

\* ------------------------------------------------- fixed-point floats
\* One float unit.
SCALE == 1000
\* One unit of a factor (AVOID_FACTOR, ...): factors are in 1/FSCALE.
FSCALE == 10000
\* The not-a-number value (outside the range of every finite value).
NaN == -2000000000

IsNaN(a) == a = NaN

Abs(a) == IF a < 0 THEN -a ELSE a

\* a / b rounded to nearest, b > 0 (a float division rounds to nearest).
RDiv(a, b) ==
  IF a >= 0 THEN (2 * a + b) \div (2 * b) ELSE -((2 * (-a) + b) \div (2 * b))

FAdd(a, b) == IF IsNaN(a) \/ IsNaN(b) THEN NaN ELSE a + b
FSub(a, b) == IF IsNaN(a) \/ IsNaN(b) THEN NaN ELSE a - b
\* a * f for a factor f in units of 1/FSCALE.
FScale(a, f) == IF IsNaN(a) THEN NaN ELSE RDiv(a * f, FSCALE)
\* a / n for a positive integer n.
FDivInt(a, n) == IF IsNaN(a) THEN NaN ELSE RDiv(a, n)
\* a / b for floats; 0/0 is NaN.  b # 0 wherever a # 0 in this program.
FDiv(a, b) ==
  IF IsNaN(a) \/ IsNaN(b) \/ b = 0 THEN NaN
  ELSE IF b > 0 THEN RDiv(a * SCALE, b) ELSE -RDiv(a * SCALE, -b)
\* Ordered comparisons: false when an operand is NaN.
FLt(a, b) == ~IsNaN(a) /\ ~IsNaN(b) /\ a < b
FGt(a, b) == ~IsNaN(a) /\ ~IsNaN(b) /\ a > b

\* Vectors are pairs <<x, y>>.
Zero2 == <<0, 0>>
VAdd(u, v) == <<FAdd(u[1], v[1]), FAdd(u[2], v[2])>>
VSub(u, v) == <<FSub(u[1], v[1]), FSub(u[2], v[2])>>
VScale(u, f) == <<FScale(u[1], f), FScale(u[2], f)>>
VDivInt(u, n) == <<FDivInt(u[1], n), FDivInt(u[2], n)>>
VIsNaN(u) == IsNaN(u[1]) \/ IsNaN(u[2])
Finite(u) == ~VIsNaN(u)

\* floor(sqrt(n)) by bisection, then rounded to nearest.
RECURSIVE SqrtIter(_, _, _)
SqrtIter(n, lo, hi) ==
  IF lo >= hi THEN lo
  ELSE LET mid == (lo + hi + 1) \div 2
       IN IF mid * mid <= n THEN SqrtIter(n, mid, hi) ELSE SqrtIter(n, lo, mid - 1)

ISqrt(n) ==
  LET r == SqrtIter(n, 0, IF n < 46340 THEN n ELSE 46340)
  IN IF n - r * r > r THEN r + 1 ELSE r

\* sqrt(x*x + y*y) for x, y >= 0, halving large operands so that the
\* squares stay inside TLC's 32-bit integers.
RECURSIVE Hypot(_, _)
Hypot(x, y) ==
  IF x <= 30000 /\ y <= 30000 THEN ISqrt(x * x + y * y)
  ELSE 2 * Hypot(x \div 2, y \div 2)

\* sf::Vector2f::length()
Length(v) == IF VIsNaN(v) THEN NaN ELSE Hypot(Abs(v[1]), Abs(v[2]))

\* 2^k for a natural k.
RECURSIVE Pow2Int(_)
Pow2Int(k) == IF k <= 0 THEN 1 ELSE 2 * Pow2Int(k - 1)

\* 2^(f/SCALE) in float units for 0 <= f < SCALE: the series of
\* exp(x ln 2) to the fourth power, in Horner form.
Pow2Frac(f) ==
  LET t4 == RDiv(f * 10, SCALE)
      t3 == RDiv(f * (56 + t4), SCALE)
      t2 == RDiv(f * (240 + t3), SCALE)
      t1 == RDiv(f * (693 + t2), SCALE)
  IN SCALE + t1

\* ------------------------------------------------ program constants
\* Flock's factors, in units of 1/FSCALE.
AVOID_FACTOR == 5000
CENTERING_FACTOR == 5
MATCHING_FACTOR == 500
BIAS_VAL == 50
NOISE_STRENGTH == 1000
\* Flock's speeds and range, in float units.
VISUAL_RANGE == 20000
MAX_SPEED == 6000
MIN_SPEED == 1000
\* The 1e-2f added to the speed in both clamp branches.
SPEED_EPS == 10

\* ---------------------------------------------------- model inputs
\* The <<position, radius>> pairs createRandomFlock / addBoid draw: whole
\* pixels, and radii of rand(2, 8), which is 2..7.
BoidSet == {<<<<0, 0>>, 2 * SCALE>>,
            <<<<5 * SCALE, 0>>, 3 * SCALE>>,
            <<<<30 * SCALE, 40 * SCALE>>, 2 * SCALE>>}
\* Mouse positions a MouseMoved event carries (whole pixels).
DestSet == {<<5 * SCALE, 0>>, <<50 * SCALE, 50 * SCALE>>}
\* Pairs of values of noise(rng), uniform in [-1, 1), in float units.
NoiseSet == {<<0, 0>>, <<900, -1000>>}

VARIABLES
  mBoids,     \* Flock::mBoids: sequence of boids [ptr, mPos, mVel, mRadius]
  mDest,      \* Flock::mDest
  pc,         \* where the program is: "idle" (no call running), "inUpdate"
              \* (inside the loop of update()), and for the driver "events",
              \* "callUpdate", "draw", "exit"
  it,         \* the outer loop of update(): index of the next boid
  snap,       \* mBoids as update() found it (of the running or last call)
  loc,        \* locals of the last iteration of update()'s outer loop
  lastOp,     \* the last call or loop step that acted
  cleared,    \* boids removed by clear(), kept through the update() after it
  drawn,      \* circles the last call drew (<<>> unless it was draw())
  aborted,    \* an assert of SFML failed: the process is gone
  nUpdates,   \* update() calls so far
  app,        \* TRUE when FlockingApp::run drives the Flock
  mFlockSize, \* FlockingApp::mFlockSize
  isOpen,     \* mWindow.isOpen()
  nEvents,    \* events polled by the running handleEvents()
  nResets     \* R key presses among them

vars == <<mBoids, mDest, pc, it, snap, loc, lastOp, cleared, drawn, aborted,
          nUpdates, app, mFlockSize, isOpen, nEvents, nResets>>

\* ------------------------------------------------------------- Boid
\* The smallest address no boid of the sequence lives at (a fresh
\* allocation never aliases a live boid).
FreshPtr(boids) ==
  CHOOSE p \in 1..(Len(boids) + 1) :
    /\ \A k \in 1..Len(boids) : boids[k].ptr # p
    /\ \A q \in 1..(p - 1) : \E k \in 1..Len(boids) : boids[k].ptr = q

\* Boid::Boid: mVel starts as {0.f, 0.f}.
NewBoid(p, pos, radius) ==
  [ptr |-> p, mPos |-> pos, mVel |-> Zero2, mRadius |-> radius]

\* Mutant of Move: the position advances by the velocity twice.
Move_Twice(b) == [b EXCEPT !.mPos = VAdd(VAdd(b.mPos, b.mVel), b.mVel)]

\* Boid::move
Move(b) == [b EXCEPT !.mPos = VAdd(b.mPos, b.mVel)]

\* Boid::draw: the circle's position is mPos - {mRadius, mRadius}.
DrawBoid(b) == <<VSub(b.mPos, <<b.mRadius, b.mRadius>>), b.mRadius>>

\* ------------------------------------------------- Flock::update body
\* len - (r + r2) of the inner loop.
SurfaceDist(b, o) ==
  FSub(Length(VSub(o.mPos, b.mPos)), b.mRadius + o.mRadius)

\* Mutant of IsNeighbour: the test for the boid itself is missing.
IsNeighbour_Self(b, o) == FLt(SurfaceDist(b, o), VISUAL_RANGE)

\* The inner loop's two tests: not the same boid, and dist < VISUAL_RANGE.
IsNeighbour(b, o) ==
  /\ b.ptr # o.ptr
  /\ FLt(SurfaceDist(b, o), VISUAL_RANGE)

\* One component of toOther / (len * std::pow(2.f, dist)), evaluated as
\* (c / len) * 2^(-dist), which is the same quotient, so that the
\* intermediate values stay inside TLC's 32-bit integers.  len = 0 only
\* for toOther = {0, 0}, and 0/0 is NaN.
SepQuot(c, len, dist) ==
  IF IsNaN(c) \/ IsNaN(len) \/ IsNaN(dist) \/ len = 0 THEN NaN
  ELSE LET k == dist \div SCALE
           m == Pow2Frac(dist - k * SCALE)
       IN IF k >= 0
          THEN RDiv(RDiv(c * SCALE, len) * SCALE, m * Pow2Int(k))
          ELSE RDiv(RDiv(c * SCALE * Pow2Int(-k), len) * SCALE, m)

\* One pass of the inner loop's body for other boid o.
Accumulate(acc, b, o) ==
  IF ~IsNeighbour(b, o) THEN acc
  ELSE LET toOther == VSub(o.mPos, b.mPos)
           len == Length(toOther)
           dist == SurfaceDist(b, o)
       IN [separation |-> VSub(acc.separation,
                               <<SepQuot(toOther[1], len, dist),
                                 SepQuot(toOther[2], len, dist)>>),
           avg_vel |-> VAdd(acc.avg_vel, o.mVel),
           avg_pos |-> VAdd(acc.avg_pos, o.mPos),
           neighbourhood_size |-> acc.neighbourhood_size + 1,
           neighbours |-> acc.neighbours \cup {o.ptr}]

NoNeighbours ==
  [separation |-> Zero2, avg_vel |-> Zero2, avg_pos |-> Zero2,
   neighbourhood_size |-> 0, neighbours |-> {}]

\* The inner loop over mBoids[j..], in container order.
RECURSIVE Scan(_, _, _, _)
Scan(boids, b, j, acc) ==
  IF j > Len(boids) THEN acc
  ELSE Scan(boids, b, j + 1, Accumulate(acc, b, boids[j]))

\* The averages after the inner loop.
Averaged(acc) ==
  IF acc.neighbourhood_size > 0
  THEN [acc EXCEPT !.avg_vel = VDivInt(acc.avg_vel, acc.neighbourhood_size),
                   !.avg_pos = VDivInt(acc.avg_pos, acc.neighbourhood_size)]
  ELSE acc

\* sf::Vector2f::normalized(): (*this) / length().
Normalized(v) == LET len == Length(v) IN <<FDiv(v[1], len), FDiv(v[2], len)>>

\* normalized() asserts that the vector is not {0, 0}.
NormalizedAsserts(v) == v = Zero2

\* toTarget.normalized() * MAX_SPEED
ToDest(pos, dest) ==
  LET n == Normalized(VSub(dest, pos))
  IN <<IF IsNaN(n[1]) THEN NaN ELSE RDiv(n[1] * MAX_SPEED, SCALE),
       IF IsNaN(n[2]) THEN NaN ELSE RDiv(n[2] * MAX_SPEED, SCALE)>>

\* The four velocity rules, in the order of the code.
Steer(b, acc, toDest) ==
  LET v1 == VAdd(b.mVel, VScale(acc.separation, AVOID_FACTOR))
      v2 == VAdd(v1, VScale(VSub(acc.avg_vel, v1), MATCHING_FACTOR))
      v3 == VAdd(v2, VScale(VSub(acc.avg_pos, b.mPos), CENTERING_FACTOR))
  IN VAdd(VScale(v3, FSCALE - BIAS_VAL), VScale(toDest, BIAS_VAL))

\* vel += jitter, for the two draws of noise(rng).
Jitter(v, noise) == VAdd(v, VScale(noise, NOISE_STRENGTH))

\* vel *= (limit / (speed + 1e-2f)), one component.
ClampMul(c, limit, speed) == RDiv(c * limit, speed + SPEED_EPS)

\* "Enforce speed limit".
Clamp(v) ==
  LET speed == Length(v)
  IN IF FGt(speed, MAX_SPEED)
     THEN <<ClampMul(v[1], MAX_SPEED, speed), ClampMul(v[2], MAX_SPEED, speed)>>
     ELSE IF FLt(speed, MIN_SPEED)
     THEN <<ClampMul(v[1], MIN_SPEED, speed), ClampMul(v[2], MIN_SPEED, speed)>>
     ELSE v

\* Mutant of Others: the inner loop reads a copy made when the call
\* started.
Others_Snapshot(boids, start, i) == start

\* The boids the inner loop of the iteration for mBoids[i] reads: mBoids
\* itself, the boids before i already updated and moved by this call.
Others(boids, start, i) == boids

\* One iteration of update()'s outer loop for boids[i]: the locals and
\* the boid as the iteration leaves it.
Iteration(boids, start, dest, i, noise) ==
  LET b == boids[i]
      acc == Averaged(Scan(Others(boids, start, i), b, 1, NoNeighbours))
      toDest == ToDest(b.mPos, dest)
      pre == Jitter(Steer(b, acc, toDest), noise)
      vel == Clamp(pre)
  IN [i |-> i, noise |-> noise, acc |-> acc, toDest |-> toDest, pre |-> pre,
      speed |-> Length(pre),
      boid |-> Move([b EXCEPT !.mVel = vel])]

\* ------------------------------------------------------ Flock calls
NoLoc == [i |-> 0]

\* Where update() returns to: the driver's draw, or the caller.
AfterUpdate == IF app THEN "draw" ELSE "idle"

\* Flock::addBoid: mBoids.emplace_back(std::make_unique<Boid>(...)).
AddedBoid(boids, pos, radius) ==
  Append(boids, NewBoid(FreshPtr(boids), pos, radius))

\* What a call other than update() and draw() leaves of the records of
\* the last update() and draw().
Forget == snap' = <<>> /\ loc' = NoLoc /\ drawn' = <<>>

FlockAddBoid(pos, radius) ==
  /\ mBoids' = AddedBoid(mBoids, pos, radius)
  /\ lastOp' = "addBoid"
  /\ cleared' = 0
  /\ Forget
  /\ UNCHANGED mDest

\* Mutant of FlockSetDest: the new destination also drops the boids.
FlockSetDest_DropsBoids(newDest) ==
  /\ mDest' = newDest
  /\ mBoids' = <<>>
  /\ lastOp' = "setDest"
  /\ cleared' = 0
  /\ Forget

\* Flock::setDest
FlockSetDest(newDest) ==
  /\ mDest' = newDest
  /\ lastOp' = "setDest"
  /\ cleared' = 0
  /\ Forget
  /\ UNCHANGED mBoids

\* Mutant of FlockClear: pop_back() in place of clear().
FlockClear_PopBack ==
  /\ mBoids' = SubSeq(mBoids, 1, Len(mBoids) - 1)
  /\ lastOp' = "clear"
  /\ cleared' = Len(mBoids)
  /\ Forget
  /\ UNCHANGED mDest

\* Flock::clear
FlockClear ==
  /\ mBoids' = <<>>
  /\ lastOp' = "clear"
  /\ cleared' = Len(mBoids)
  /\ Forget
  /\ UNCHANGED mDest

\* Flock::draw: every boid draws its circle, in container order.
FlockDraw ==
  /\ drawn' = [k \in 1..Len(mBoids) |-> DrawBoid(mBoids[k])]
  /\ lastOp' = "draw"
  /\ cleared' = 0
  /\ snap' = <<>> /\ loc' = NoLoc
  /\ UNCHANGED <<mBoids, mDest>>

\* Entry of Flock::update: the range-for starts at mBoids.begin(); over
\* an empty mBoids the loop body never runs and the call returns.
UpdateCall ==
  /\ pc \in {"idle", "callUpdate"}
  /\ ~aborted
  /\ nUpdates < MaxUpdates
  /\ nUpdates' = nUpdates + 1
  /\ snap' = mBoids
  /\ it' = 1
  /\ loc' = NoLoc
  /\ drawn' = <<>>
  /\ IF Len(mBoids) = 0
     THEN pc' = AfterUpdate /\ lastOp' = "update"
     ELSE pc' = "inUpdate" /\ lastOp' = "updateCall"
  /\ UNCHANGED <<mBoids, mDest, cleared, aborted, app, mFlockSize, isOpen, nEvents, nResets>>

\* One iteration of update()'s outer loop, for mBoids[it], with the two
\* draws of noise(rng); the call returns after the last boid.
UpdateBoid(noise) ==
  /\ pc = "inUpdate"
  /\ ~aborted
  /\ it <= Len(mBoids)
  /\ LET r == Iteration(mBoids, snap, mDest, it, noise)
     IN /\ mBoids' = [mBoids EXCEPT ![it] = r.boid]
        /\ loc' = [i |-> r.i, noise |-> r.noise, acc |-> r.acc,
                   toDest |-> r.toDest, pre |-> r.pre, speed |-> r.speed]
  /\ it' = it + 1
  /\ IF it = Len(mBoids)
     THEN pc' = AfterUpdate /\ lastOp' = "update"
     ELSE pc' = "inUpdate" /\ lastOp' = "updateBoid"
  /\ UNCHANGED <<mDest, snap, cleared, drawn, aborted, nUpdates, app,
                 mFlockSize, isOpen, nEvents, nResets>>

\* A build with assertions: toTarget.normalized() on {0, 0} fails SFML's
\* assert and the process aborts.  (A build without them goes on, in
\* UpdateBoid, with 0/0.)
UpdateAbort ==
  /\ pc = "inUpdate"
  /\ ~aborted
  /\ it <= Len(mBoids)
  /\ NormalizedAsserts(VSub(mDest, mBoids[it].mPos))
  /\ aborted' = TRUE
  /\ lastOp' = "abort"
  /\ UNCHANGED <<mBoids, mDest, pc, it, snap, loc, cleared, drawn, nUpdates,
                 app, mFlockSize, isOpen, nEvents, nResets>>

\* ------------------------------------------- the Flock, called freely
Idle == pc = "idle" /\ ~aborted

AddBoid(pos, radius) ==
  /\ Idle
  /\ Len(mBoids) < MaxBoids
  /\ FlockAddBoid(pos, radius)
  /\ UNCHANGED <<pc, it, aborted, nUpdates, app, mFlockSize, isOpen, nEvents, nResets>>

SetDest(newDest) ==
  /\ Idle
  /\ FlockSetDest(newDest)
  /\ UNCHANGED <<pc, it, aborted, nUpdates, app, mFlockSize, isOpen, nEvents, nResets>>

Clear ==
  /\ Idle
  /\ FlockClear
  /\ UNCHANGED <<pc, it, aborted, nUpdates, app, mFlockSize, isOpen, nEvents, nResets>>

Draw ==
  /\ Idle
  /\ FlockDraw
  /\ UNCHANGED <<pc, it, aborted, nUpdates, app, mFlockSize, isOpen, nEvents, nResets>>

\* A Flock as constructed: no boids, mDest = {0, 0}.
Init ==
  /\ mBoids = <<>>
  /\ mDest = Zero2
  /\ pc = "idle"
  /\ it = 1
  /\ snap = <<>>
  /\ loc = NoLoc
  /\ lastOp = "init"
  /\ cleared = 0
  /\ drawn = <<>>
  /\ aborted = FALSE
  /\ nUpdates = 0
  /\ app = FALSE
  /\ mFlockSize = 0
  /\ isOpen = FALSE
  /\ nEvents = 0
  /\ nResets = 0

Next ==
  \/ \E in \in BoidSet : AddBoid(in[1], in[2])
  \/ \E newDest \in DestSet : SetDest(newDest)
  \/ Clear
  \/ Draw
  \/ UpdateCall
  \/ \E noise \in NoiseSet : UpdateBoid(noise)
  \/ UpdateAbort

Spec == Init /\ [][Next]_vars

\* ------------------------------------------------------ FlockingApp
\* createRandomFlock(n): n calls of addBoid with drawn x, y and radius.
RECURSIVE RandomFlocks(_, _)
RandomFlocks(boids, n) ==
  IF n = 0 THEN {boids}
  ELSE UNION {RandomFlocks(AddedBoid(boids, in[1], in[2]), n - 1) :
                in \in BoidSet}

\* Mutant of Polling: events are also handled while update() runs.
Polling_DuringUpdate ==
  pc \in {"events", "inUpdate"} /\ ~aborted /\ isOpen /\ nEvents < MaxEvents

\* handleEvents polls on: the window is open and an event is queued.
Polling == pc = "events" /\ ~aborted /\ isOpen /\ nEvents < MaxEvents

AppFrame == <<pc, it, aborted, nUpdates, app, mFlockSize>>

\* handleEvents, event Closed: mWindow.close().
HandleClosed ==
  /\ Polling
  /\ isOpen' = FALSE
  /\ nEvents' = nEvents + 1
  /\ UNCHANGED nResets
  /\ lastOp' = "close"
  /\ UNCHANGED <<mBoids, mDest, snap, loc, cleared, drawn>>
  /\ UNCHANGED AppFrame

\* handleEvents, event MouseMoved: mFlock->setDest(position).
HandleMouseMoved(position) ==
  /\ Polling
  /\ FlockSetDest(position)
  /\ nEvents' = nEvents + 1
  /\ UNCHANGED nResets
  /\ UNCHANGED isOpen
  /\ UNCHANGED AppFrame

\* Mutant of HandleKeyR: createRandomFlock without the clear() before it.
HandleKeyR_NoClear ==
  /\ pc = "events" /\ ~aborted /\ isOpen /\ nEvents < MaxEvents
  /\ mBoids' \in RandomFlocks(mBoids, mFlockSize)
  /\ lastOp' = "reset"
  /\ cleared' = 0
  /\ Forget
  /\ nEvents' = nEvents + 1
  /\ nResets' = nResets + 1
  /\ UNCHANGED <<mDest, isOpen>>
  /\ UNCHANGED <<pc, it, aborted, nUpdates, app, mFlockSize>>

\* handleEvents, event KeyPressed with scancode R: mFlock->clear(), then
\* createRandomFlock(mFlockSize).
HandleKeyR ==
  /\ Polling
  /\ mBoids' \in RandomFlocks(<<>>, mFlockSize)
  /\ lastOp' = "reset"
  /\ cleared' = IF mFlockSize = 0 THEN Len(mBoids) ELSE 0
  /\ Forget
  /\ nEvents' = nEvents + 1
  /\ nResets' = nResets + 1
  /\ UNCHANGED <<mDest, isOpen>>
  /\ UNCHANGED AppFrame

\* handleEvents, any other event (another key, a resize, ...): ignored.
HandleOther ==
  /\ Polling
  /\ nEvents' = nEvents + 1
  /\ UNCHANGED nResets
  /\ lastOp' = "other"
  /\ UNCHANGED <<mBoids, mDest, snap, loc, cleared, drawn, isOpen>>
  /\ UNCHANGED AppFrame

\* pollEvent() returns no event (none is queued, or the window is
\* closed): handleEvents returns and run() goes on to mFlock->update().
PollEmpty ==
  /\ pc = "events"
  /\ ~aborted
  /\ pc' = "callUpdate"
  /\ nEvents' = 0
  /\ nResets' = 0
  /\ UNCHANGED <<mBoids, mDest, it, snap, loc, lastOp, cleared, drawn, aborted,
                 nUpdates, app, mFlockSize, isOpen>>

\* run(): mWindow.clear, mFlock->draw, mWindow.display, then the loop
\* test mWindow.isOpen().
AppDraw ==
  /\ pc = "draw"
  /\ ~aborted
  /\ FlockDraw
  /\ pc' = IF isOpen THEN "events" ELSE "exit"
  /\ UNCHANGED <<it, aborted, nUpdates, app, mFlockSize, isOpen, nEvents, nResets>>

\* FlockingApp as constructed: flockSize boids from createRandomFlock,
\* the window open, run() about to call handleEvents.
InitApp ==
  /\ mFlockSize \in 0..MaxBoids
  /\ mBoids \in RandomFlocks(<<>>, mFlockSize)
  /\ mDest = Zero2
  /\ pc = "events"
  /\ it = 1
  /\ snap = <<>>
  /\ loc = NoLoc
  /\ lastOp = "init"
  /\ cleared = 0
  /\ drawn = <<>>
  /\ aborted = FALSE
  /\ nUpdates = 0
  /\ app = TRUE
  /\ isOpen = TRUE
  /\ nEvents = 0
  /\ nResets = 0

NextApp ==
  \/ HandleClosed
  \/ \E position \in DestSet : HandleMouseMoved(position)
  \/ HandleKeyR
  \/ HandleOther
  \/ PollEmpty
  \/ UpdateCall
  \/ \E noise \in NoiseSet : UpdateBoid(noise)
  \/ UpdateAbort
  \/ AppDraw

SpecApp == InitApp /\ [][NextApp]_vars

\* ----------------------------------------------------------- claims
\* The velocities and positions of a sequence of boids are all finite.
AllFinite(boids) ==
  \A k \in 1..Len(boids) : Finite(boids[k].mVel) /\ Finite(boids[k].mPos)

\* The same boids, in the same order, with the same radii.
SameAgents(a, b) ==
  /\ Len(a) = Len(b)
  /\ \A k \in 1..Len(a) : a[k].ptr = b[k].ptr /\ a[k].mRadius = b[k].mRadius

\* An iteration of update()'s loop has run in the running or last call.
Iterated == loc.i >= 1

\* The steps of update(): its entry, its iterations, its abort.
UpdateOps == {"updateCall", "updateBoid", "update", "abort"}

\* C1: after any call to update(), every agent's speed is within
\* [MIN_SPEED - delta, MAX_SPEED + delta], whatever the speed before the
\* clamp was (delta = 5 * 0.01).  Stated for the agents whose velocity is
\* finite, so that a violation is one of the clamp alone.
C1_SpeedWithinLimits ==
  lastOp = "update" =>
    \A k \in 1..Len(mBoids) :
      Finite(mBoids[k].mVel) =>
        /\ Length(mBoids[k].mVel) >= MIN_SPEED - 5 * SPEED_EPS
        /\ Length(mBoids[k].mVel) <= MAX_SPEED + 5 * SPEED_EPS

\* C2 (as claimed): the boid an iteration of update() leaves is the one
\* computed from the boids as they were when the call started.  Stated
\* for flocks whose values are all finite.
C2_FromSnapshot ==
  (Iterated /\ AllFinite(mBoids)) =>
    mBoids[loc.i] = Iteration(snap, snap, mDest, loc.i, loc.noise).boid

\* The boids iteration i of update() reads: those before i as this call
\* updated and moved them, the others as the call found them.
PartlyUpdated(i) ==
  [k \in 1..Len(mBoids) |-> IF k < i THEN mBoids[k] ELSE snap[k]]

\* C2 (amended): the boid iteration i of update() leaves is computed from
\* the boids before i as already updated and moved by this call and the
\* boids after i as the call found them; the boids after i are untouched.
C2_FromPartlyUpdated ==
  Iterated =>
    /\ mBoids[loc.i] = Iteration(PartlyUpdated(loc.i), PartlyUpdated(loc.i),
                                 mDest, loc.i, loc.noise).boid
    /\ \A k \in (loc.i + 1)..Len(mBoids) : mBoids[k] = snap[k]

\* C2 witness: the second boid was updated next to a first one that had
\* moved, and is not the boid the start-of-call state gives.
C2_Witness ==
  /\ lastOp = "update"
  /\ loc.i = 2
  /\ loc.acc.neighbourhood_size = 1
  /\ AllFinite(mBoids)
  /\ mBoids[2] # Iteration(snap, snap, mDest, 2, loc.noise).boid

\* C3: update() never divides by zero in the separation term, so the
\* separation an iteration accumulates is finite, also for two boids at
\* the same position, and so are the velocity and position it leaves.
\* Stated for iterations whose direction to the destination is finite.
C3_SeparationFinite ==
  (Iterated /\ Finite(loc.toDest)) =>
    /\ Finite(loc.acc.separation)
    /\ Finite(mBoids[loc.i].mVel)
    /\ Finite(mBoids[loc.i].mPos)

\* C4: the number of agents changes only through addBoid (+1) and clear
\* (to 0); update() and setDest() leave the agents, their order and their
\* radii unchanged, and update() leaves the destination unchanged.
C4_AgentsFrame ==
  [][/\ Len(mBoids') # Len(mBoids) => lastOp' \in {"addBoid", "clear"}
     /\ lastOp' = "addBoid" => Len(mBoids') = Len(mBoids) + 1
     /\ lastOp' = "clear" => Len(mBoids') = 0
     /\ lastOp' \in UpdateOps \cup {"setDest"} => SameAgents(mBoids, mBoids')
     /\ lastOp' \in UpdateOps => mDest' = mDest]_vars

\* C4 witness: update() has run over two agents, after a setDest().
C4_Witness ==
  /\ lastOp = "update"
  /\ Len(mBoids) = 2
  /\ Iterated
  /\ mDest # Zero2
  /\ AllFinite(mBoids)

\* C5: clear() leaves no agent, and update() on the empty flock returns
\* with the flock still empty, the destination unchanged, nothing drawn
\* and no abort; draw() on the empty flock draws no agent.
C5_ClearThenUpdate ==
  [][/\ lastOp' = "clear" => mBoids' = <<>>
     /\ (mBoids = <<>> /\ lastOp' \in UpdateOps) =>
          /\ lastOp' = "update"
          /\ mBoids' = <<>>
          /\ mDest' = mDest
          /\ drawn' = <<>>
          /\ ~aborted'
          /\ pc' = "idle"
     /\ (mBoids = <<>> /\ lastOp' = "draw") => drawn' = <<>>]_vars

\* C5 witness: update() has returned after a clear() that removed agents.
C5_Witness == lastOp = "update" /\ cleared > 0 /\ mBoids = <<>>

\* C6: run() goes from event handling to one whole update() to drawing
\* and back; agents and destination change only in event handling or,
\* agents kept, inside update(); drawing happens only once update() has
\* passed every agent.
C6_FrameOrder ==
  [][/\ pc' # pc =>
          <<pc, pc'>> \in {<<"events", "callUpdate">>, <<"callUpdate", "inUpdate">>,
                           <<"callUpdate", "draw">>, <<"inUpdate", "draw">>,
                           <<"draw", "events">>, <<"draw", "exit">>}
     /\ (pc = "callUpdate" /\ pc' = "draw") => mBoids = <<>>
     /\ pc = "inUpdate" =>
          /\ SameAgents(mBoids, mBoids')
          /\ mDest' = mDest
          /\ lastOp' \in {"updateBoid", "update", "abort"}
     /\ (~SameAgents(mBoids, mBoids') \/ mDest' # mDest) =>
          pc = "events" /\ pc' = "events"
     /\ (pc # "draw" /\ pc' = "draw") =>
          it' = Len(mBoids') + 1 /\ Len(snap') = Len(mBoids')
     /\ pc = "draw" =>
          /\ it = Len(mBoids) + 1
          /\ mBoids' = mBoids
          /\ drawn' = [k \in 1..Len(mBoids) |-> DrawBoid(mBoids[k])]
     /\ (drawn' # drawn /\ drawn' # <<>>) => pc = "draw"]_vars

\* C6 witness: a frame has handled a mouse move, updated its two agents
\* and drawn them, and run() is back at event handling.
C6_Witness ==
  /\ pc = "events"
  /\ lastOp = "draw"
  /\ nUpdates >= 1
  /\ mDest # Zero2
  /\ Len(drawn) = 2

\* C7: for an agent at the destination update() takes the zero vector as
\* the direction, so toDest is {0, 0}, and no zero vector is normalized.
C7_ZeroDirection ==
  /\ ~aborted
  /\ (Iterated /\ snap[loc.i].mPos = mDest) => loc.toDest = Zero2

\* The boids that are neighbours of boid i as its iteration found them:
\* another boid, at a surface distance below VISUAL_RANGE.
InRange(i) ==
  {k \in 1..Len(mBoids) :
     /\ k # i
     /\ FLt(FSub(Length(VSub(mBoids[k].mPos, snap[i].mPos)),
                 snap[i].mRadius + mBoids[k].mRadius),
            VISUAL_RANGE)}

\* C8: the boids an iteration counts are exactly the other boids at a
\* surface distance below VISUAL_RANGE, never the boid itself; with none
\* in range the count is 0 and separation, avg_vel, avg_pos stay {0, 0}.
C8_Neighbours ==
  Iterated =>
    /\ loc.acc.neighbours = {mBoids[k].ptr : k \in InRange(loc.i)}
    /\ loc.acc.neighbourhood_size = Cardinality(InRange(loc.i))
    /\ snap[loc.i].ptr \notin loc.acc.neighbours
    /\ InRange(loc.i) = {} =>
         /\ loc.acc.neighbourhood_size = 0
         /\ loc.acc.separation = Zero2
         /\ loc.acc.avg_vel = Zero2
         /\ loc.acc.avg_pos = Zero2

\* C8 witness: update() has passed two agents too far apart to see each
\* other.
C8_Witness ==
  /\ lastOp = "update"
  /\ Len(mBoids) = 2
  /\ loc.i = 2
  /\ loc.acc.neighbourhood_size = 0
  /\ AllFinite(mBoids)

\* C9: a call of update() advances every agent's position once, by the
\* agent's new velocity; an iteration moves its own agent only; addBoid,
\* setDest and draw leave every existing agent's position unchanged.
C9_PositionIntegrates ==
  [][/\ lastOp' = "update" =>
          \A k \in 1..Len(mBoids') :
            mBoids'[k].mPos = VAdd(snap'[k].mPos, mBoids'[k].mVel)
     /\ pc = "inUpdate" =>
          \A k \in 1..Len(mBoids) :
            mBoids'[k].mPos =
              IF k = it /\ ~aborted' THEN VAdd(mBoids[k].mPos, mBoids'[k].mVel)
              ELSE mBoids[k].mPos
     /\ lastOp' \in {"addBoid", "setDest", "draw", "updateCall"} =>
          \A k \in 1..Len(mBoids) : mBoids'[k].mPos = mBoids[k].mPos]_vars

\* C9 witness: update() has moved two agents, each at its own velocity.
C9_Witness ==
  /\ lastOp = "update"
  /\ Len(mBoids) = 2
  /\ AllFinite(mBoids)
  /\ \A k \in 1..2 : mBoids[k].mVel # Zero2 /\ mBoids[k].mPos # snap[k].mPos
  /\ mBoids[1].mVel # mBoids[2].mVel

\* C10: whenever run() calls update() or draw(), the flock holds exactly
\* mFlockSize agents; a reset leaves mFlockSize new agents at rest.
C10_FlockSize ==
  /\ pc \in {"callUpdate", "inUpdate", "draw"} => Len(mBoids) = mFlockSize
  /\ lastOp = "reset" =>
       /\ Len(mBoids) = mFlockSize
       /\ \A k \in 1..Len(mBoids) : mBoids[k].mVel = Zero2

\* C10 witness: two resets in the same handleEvents() call, after agents
\* had moved.
C10_Witness ==
  /\ lastOp = "reset"
  /\ nResets = 2
  /\ nUpdates >= 1
  /\ mFlockSize = 2
  /\ Len(mBoids) = 2

=============================================================================
